---- MODULE Spec2Model ----
(***************************************************************************)
(* depres (src/src/main.rs): the closure driver of main, the entity        *)
(* resolver process, the file resolvers process_file / find_shebang /      *)
(* find_env_cmd / parse_elf / find_ldso / find_glibc_deps / find_elf_deps  *)
(* and the path normaliser resolve_path.                                   *)
(*                                                                         *)
(* A string is a sequence of byte symbols ("a", "/", "LF", "xFF", ...).    *)
(* A normalised absolute path (PathBuf) is the sequence of its components, *)
(* each component a string; the root is <<>>.  A raw path, as a resolver   *)
(* returns it, is [abs, comps] where comps may hold "." and "..".          *)
(***************************************************************************)
EXTENDS Integers, Sequences, FiniteSets, TLC

VARIABLES
    pc,                 \* main: "start", "loop", "done", "exit1", "aborted" ("idle": not run)
    cwd,                \* env::current_dir()
    args,               \* the command line arguments (strings)
    unprocessed_paths,  \* the VecDeque of main
    processed_paths,    \* the HashMap<PathBuf, bool> of main
    calls,              \* number of process() invocations per path
    discovered,         \* the normalised seeds and every normalised reference process() gave
    warnings,           \* number of warning lines on stderr per path they name
    failed,             \* the paths whose resolution did not return Ok
    compressed,         \* the resolved paths that are ELF files with a compressed .interp
    printed,            \* the lines on stdout, in order
    exit_code,          \* -1 while running
    f_name, f_file, f_res,   \* process_file: file name, file, result
    e_args, e_res,           \* find_env_cmd: arguments, result
    r_path, r_ent, r_res     \* the references of one entity: path, entity, result

vars == <<pc, cwd, args, unprocessed_paths, processed_paths, calls, discovered,
          warnings, failed, compressed, printed, exit_code,
          f_name, f_file, f_res, e_args, e_res, r_path, r_ent, r_res>>

driverVars == <<pc, cwd, args, unprocessed_paths, processed_paths, calls, discovered,
                warnings, failed, compressed, printed, exit_code>>
fileVars == <<f_name, f_file, f_res>>
envVars == <<e_args, e_res>>
refVars == <<r_path, r_ent, r_res>>

----------------------------------------------------------------------------
(* Strings *)

\* The byte symbols of the model in ascending byte order.
ByteOrder ==
    << "NUL", "LF", "SP", "QUOTE", "HASH", "BANG", "-", ".", "/", "0", "1", "2", "3",
       "6", "8", ":", "=", "C", "E", "F", "L", "S", "[", "a", "b", "c", "d", "e", "f", "g", "h", "i",
       "l", "m", "n", "o", "p", "r", "s", "t", "u", "v", "w", "x", "x7F",
       "xBD", "xBF", "xEF", "xFE", "xFF" >>

Ord(c) == CHOOSE i \in 1..Len(ByteOrder) : ByteOrder[i] = c

\* Bytes that are no valid UTF-8 on their own.
InvalidUtf8 == {"xFE", "xFF"}

IsUtf8(s) == \A i \in 1..Len(s) : s[i] \notin InvalidUtf8

\* String::from_utf8_lossy: every invalid byte becomes U+FFFD (EF BF BD).
RECURSIVE Lossy(_)
Lossy(s) ==
    IF s = <<>> THEN <<>>
    ELSE (IF s[1] \in InvalidUtf8 THEN <<"xEF", "xBF", "xBD">> ELSE <<s[1]>>)
         \o Lossy(Tail(s))

starts_with(s, prefix) ==
    /\ Len(s) >= Len(prefix)
    /\ SubSeq(s, 1, Len(prefix)) = prefix

contains(s, c) == \E i \in 1..Len(s) : s[i] = c

\* <[u8]>::cmp / str::cmp: byte-wise lexicographic; TRUE when a < b.
RECURSIVE StrLess(_, _)
StrLess(a, b) ==
    IF b = <<>> THEN FALSE
    ELSE IF a = <<>> THEN TRUE
    ELSE IF a[1] # b[1] THEN Ord(a[1]) < Ord(b[1])
    ELSE StrLess(Tail(a), Tail(b))

----------------------------------------------------------------------------
(* Paths *)

Some(v) == [some |-> TRUE, val |-> v]
None == [some |-> FALSE, val |-> <<>>]

\* Path::components of a string: split at "/", empty components dropped.
RECURSIVE SplitSlash(_, _)
SplitSlash(s, cur) ==
    IF s = <<>> THEN (IF cur = <<>> THEN <<>> ELSE <<cur>>)
    ELSE IF s[1] = "/"
         THEN (IF cur = <<>> THEN <<>> ELSE <<cur>>) \o SplitSlash(Tail(s), <<>>)
         ELSE SplitSlash(Tail(s), Append(cur, s[1]))

\* PathBuf::from(string)
PathFrom(s) == [abs |-> s # <<>> /\ s[1] = "/", comps |-> SplitSlash(s, <<>>)]

\* A normalised absolute path as a raw path.
Raw(p) == [abs |-> TRUE, comps |-> p]

\* Path::join of a directory and an entry name.
Join(p, name) == Raw(Append(p, name))

\* Lexical collapse of "." and ".." on top of an absolute base.
RECURSIVE Collapse(_, _)
Collapse(base, comps) ==
    IF comps = <<>> THEN base
    ELSE IF comps[1] = <<".">> THEN Collapse(base, Tail(comps))
    ELSE IF comps[1] = <<".", ".">>
         THEN Collapse(IF base = <<>> THEN <<>> ELSE SubSeq(base, 1, Len(base) - 1),
                       Tail(comps))
    ELSE Collapse(Append(base, comps[1]), Tail(comps))

\* resolve_path: Absolutize::absolutize_from(reference), no file system access.
resolve_path(path, reference) ==
    Collapse(IF path.abs THEN <<>> ELSE reference, path.comps)

\* Path::parent of a normalised absolute path.
parent(p) == IF p = <<>> THEN None ELSE Some(SubSeq(p, 1, Len(p) - 1))

\* Path::file_name
file_name(p) == IF p = <<>> THEN None ELSE Some(p[Len(p)])

\* The bytes of a normalised absolute path.
RECURSIVE PathBytes(_)
PathBytes(p) ==
    IF p = <<>> THEN <<"/">>
    ELSE IF Len(p) = 1 THEN <<"/">> \o p[1]
    ELSE PathBytes(SubSeq(p, 1, Len(p) - 1)) \o <<"/">> \o p[Len(p)]

\* k.display().to_string(): lossy conversion of the path's bytes.
Display(p) == Lossy(PathBytes(p))

\* The comparator of paths.sort_by: a.len().cmp(&b.len()).then_with(|| a.cmp(b))
SortLess(a, b) == Len(a) < Len(b) \/ (Len(a) = Len(b) /\ StrLess(a, b))

\* Insertion of one string into a sorted sequence, after its equals.
RECURSIVE SortInsert(_, _)
SortInsert(sorted, s) ==
    IF sorted = <<>> THEN <<s>>
    ELSE IF SortLess(s, sorted[1]) THEN <<s>> \o sorted
    ELSE <<sorted[1]>> \o SortInsert(Tail(sorted), s)

RECURSIVE SortStrings(_)
SortStrings(seq) ==
    IF seq = <<>> THEN <<>> ELSE SortInsert(SortStrings(Tail(seq)), seq[1])

\* HashMap::into_iter: the keys in some order.
RECURSIVE KeysInSomeOrder(_)
KeysInSomeOrder(S) ==
    IF S = {} THEN <<>>
    ELSE LET k == CHOOSE k \in S : TRUE IN <<k>> \o KeysInSomeOrder(S \ {k})

RECURSIVE MapDisplay(_)
MapDisplay(seq) ==
    IF seq = <<>> THEN <<>> ELSE <<Display(seq[1])>> \o MapDisplay(Tail(seq))

\* The final step of main: successes, displayed, sorted.
SortedOutput(processed) ==
    SortStrings(MapDisplay(KeysInSomeOrder({k \in DOMAIN processed : processed[k]})))

----------------------------------------------------------------------------
(* Results *)

Ok(v) == [tag |-> "Ok", val |-> v]
Err(e) == [tag |-> "Err", val |-> e]
\* A panic of the main thread: it unwinds through main and ends the process.
Panic(m) == [tag |-> "Panic", val |-> m]

\* Index of the first occurrence of c in s, 0 when there is none.
position(s, c) ==
    IF contains(s, c) THEN CHOOSE i \in 1..Len(s) : s[i] = c /\ \A j \in 1..(i - 1) : s[j] # c
    ELSE 0

ends_with(s, c) == s # <<>> /\ s[Len(s)] = c

----------------------------------------------------------------------------
(* Shebang resolver *)

\* The header between "#!" and the first newline of the sniffed buffer.
find_shebang(buffer) ==
    IF starts_with(buffer, <<"HASH", "BANG">>)
    THEN LET end == position(buffer, "LF") IN
         IF end # 0
         THEN (IF IsUtf8(SubSeq(buffer, 3, end - 1))
               THEN Some(SubSeq(buffer, 3, end - 1))
               ELSE None)
         ELSE None
    ELSE None

\* shlex::split on strings of plain bytes, blanks, double quotes and "#":
\* words are separated by blanks, a double quote opens a quoted stretch of the
\* word, "#" where a word would start begins a comment to the end of the line,
\* and an unterminated quote gives None.  st is "gap", "word" or "quote".
RECURSIVE Shlex(_, _, _, _)
Shlex(s, st, cur, acc) ==
    IF s = <<>>
    THEN (IF st = "quote" THEN None
          ELSE IF st = "word" THEN Some(Append(acc, cur))
          ELSE Some(acc))
    ELSE LET ch == s[1] IN
         IF st = "quote"
         THEN (IF ch = "QUOTE" THEN Shlex(Tail(s), "word", cur, acc)
               ELSE Shlex(Tail(s), "quote", Append(cur, ch), acc))
         ELSE IF st = "gap"
         THEN (IF ch = "SP" THEN Shlex(Tail(s), "gap", <<>>, acc)
               ELSE IF ch = "HASH" THEN Some(acc)
               ELSE IF ch = "QUOTE" THEN Shlex(Tail(s), "quote", <<>>, acc)
               ELSE Shlex(Tail(s), "word", <<ch>>, acc))
         ELSE (IF ch = "SP" THEN Shlex(Tail(s), "gap", <<>>, Append(acc, cur))
               ELSE IF ch = "QUOTE" THEN Shlex(Tail(s), "quote", cur, acc)
               ELSE Shlex(Tail(s), "word", Append(cur, ch), acc))

shlex_split(s) == Shlex(s, "gap", <<>>, <<>>)

\* The flags of env that take no argument, and those that take one.
BoolFlags ==
    { <<"-", "i">>,
      <<"-", "-", "i", "g", "n", "o", "r", "e", "-",
        "e", "n", "v", "i", "r", "o", "n", "m", "e", "n", "t">>,
      <<"-", "0">>,
      <<"-", "-", "n", "u", "l", "l">>,
      <<"-", "v">>,
      <<"-", "-", "d", "e", "b", "u", "g">> }

ValueFlags ==
    { <<"-", "u">>,
      <<"-", "-", "u", "n", "s", "e", "t">>,
      <<"-", "C">>,
      <<"-", "-", "c", "h", "d", "i", "r">>,
      <<"-", "S">>,
      <<"-", "-", "s", "p", "l", "i", "t", "-", "s", "t", "r", "i", "n", "g">> }

\* find_env_cmd's loop with a value flag that skips nothing.
RECURSIVE env_scan_no_skip(_, _)
env_scan_no_skip(a, i) ==
    IF i > Len(a) THEN None
    ELSE IF starts_with(a[i], <<"-">>) THEN env_scan_no_skip(a, i + 1)
    ELSE IF ~contains(a[i], "=") THEN Some(a[i])
    ELSE env_scan_no_skip(a, i + 1)

\* The loop of find_env_cmd with the iterator at position i.
RECURSIVE env_scan(_, _)
env_scan(a, i) ==
    IF i > Len(a) THEN None
    ELSE LET arg == a[i] IN
         IF starts_with(arg, <<"-">>)
         THEN (IF arg \in BoolFlags THEN env_scan(a, i + 1)
               ELSE IF arg \in ValueFlags /\ Len(a) - i > 0 THEN env_scan(a, i + 2)
               ELSE env_scan(a, i + 1))
         ELSE IF ~contains(arg, "=") THEN Some(arg)
         ELSE env_scan(a, i + 1)

find_env_cmd(a) == env_scan(a, 1)

UsrBinEnv == <<"/", "u", "s", "r", "/", "b", "i", "n", "/", "e", "n", "v">>

\* which::which: the search path holds the command (file.which = Some(path)) or not.
which(file, cmd) == IF file.which.some THEN Ok(file.which.val) ELSE Err("which")

----------------------------------------------------------------------------
(* ELF resolver *)

\* DEFAULT_LDSO of the x86_64 build.
DEFAULT_LDSO ==
    PathFrom(<<"/", "l", "i", "b", "6", "4", "/", "l", "d", "-", "l", "i", "n", "u", "x",
               "-", "x", "8", "6", "-", "6", "4", ".", "s", "o", ".", "2">>)

\* infer::app::is_elf: more than a 32-bit ELF header's bytes, and the magic number.
ElfMinLen == 52
is_elf(buffer) == Len(buffer) > ElfMinLen /\ starts_with(buffer, <<"x7F", "E", "L", "F">>)

find_ldso(elf) ==
    IF elf.interp_hdr = "err" THEN Err("section headers")
    ELSE IF elf.interp_hdr = "none" THEN Ok(None)
    ELSE IF elf.interp_data = "err" THEN Err("section data")
    ELSE IF elf.compressed THEN Panic("compressed headers unsupported")
    ELSE LET nul == position(elf.interp, "NUL")
             end == IF nul # 0 THEN nul - 1 ELSE Len(elf.interp)
             interp == Lossy(SubSeq(elf.interp, 1, end))
         IN  IF interp # <<>> THEN Ok(Some(PathFrom(interp))) ELSE Ok(None)

\* Version::from_str on the dotted numbers the regex captured.
Version_from_str(parts) ==
    IF parts = <<>> THEN Err("invalid output")
    ELSE Ok([major |-> parts[1],
             minor |-> IF Len(parts) >= 2 THEN Some(parts[2]) ELSE None,
             patch |-> IF Len(parts) >= 3 THEN Some(parts[3]) ELSE None])

\* glibc_version: run the library, match the banner, parse the version.
glibc_version(probe) ==
    IF ~probe.spawn THEN Err("spawn")
    ELSE IF ~probe.success THEN Err("glibc returned with non-success exit code")
    ELSE IF ~probe.line.some THEN Err("invalid output")
    ELSE IF ~probe.line.val.matches THEN Err("invalid output")
    ELSE Version_from_str(probe.line.val.version)

\* find_dyn_lib: load the library, then look it up among the mapped ones.
LibDir == <<"l", "i", "b">>
find_dyn_lib(elf, name) ==
    IF name \notin elf.loadable THEN Err("dlopen")
    ELSE IF name \notin elf.mapped THEN Ok(None)
    ELSE Ok(Some(Raw(<<LibDir, name>>)))

\* The handler of one part of a line: the text before "[".
HandlerOf(part) ==
    LET b == position(part, "[") IN IF b = 0 THEN part ELSE SubSeq(part, 1, b - 1)

parse_nsswitch_conf(nss) ==
    IF ~nss.open THEN Err("open")
    ELSE IF \E i \in 1..Len(nss.lines) : ~nss.lines[i].ok THEN Err("read")
    ELSE Ok({ HandlerOf(nss.lines[i].parts[j]) :
                <<i, j>> \in { ij \in (1..Len(nss.lines)) \X (1..3) :
                                 /\ ij[2] <= Len(nss.lines[ij[1]].parts)
                                 /\ ij[2] > 1
                                 /\ ~ends_with(nss.lines[ij[1]].parts[ij[2]], ":")
                                 /\ HandlerOf(nss.lines[ij[1]].parts[ij[2]]) # <<>> } })

\* The found ones among the candidate names, in order.
RECURSIVE FoundLibs(_, _)
FoundLibs(elf, names) ==
    IF names = <<>> THEN <<>>
    ELSE LET r == find_dyn_lib(elf, names[1]) IN
         (IF r.tag = "Ok" /\ r.val.some THEN <<r.val.val>> ELSE <<>>)
         \o FoundLibs(elf, Tail(names))

\* The candidate module names of one handler.
Candidates(handler, version) ==
    (IF version.minor.some
     THEN << <<"libnss_", handler, "-", version.major, ".", version.minor.val, ".so">> >>
     ELSE <<>>)
    \o << <<"libnss_", handler, ".so.", version.major>>,
          <<"libnss_", handler, ".so">> >>

\* The loop over the handlers, in the HashSet's iteration order.
RECURSIVE HandlerLibs(_, _, _)
HandlerLibs(elf, handlers, version) ==
    IF handlers = <<>> THEN <<>>
    ELSE FoundLibs(elf, Candidates(handlers[1], version))
         \o HandlerLibs(elf, Tail(handlers), version)

NssConf == PathFrom(<<"/", "e", "t", "c", "/", "n", "s", "s", "w", "i", "t", "c", "h",
                      ".", "c", "o", "n", "f">>)

find_glibc_deps(elf, version) ==
    LET files == FoundLibs(elf, << <<"libgcc_s.so.1">>, <<"libidn2.so.0">> >>) IN
    IF elf.nss_is_file
    THEN LET h == parse_nsswitch_conf(elf.nss) IN
         IF h.tag = "Err" THEN h
         ELSE Ok(files \o HandlerLibs(elf, KeysInSomeOrder(h.val), version) \o <<NssConf>>)
    ELSE Ok(files)

\* find_elf_deps: the trace of the dynamic linker, line by line.
RECURSIVE TraceDeps(_)
TraceDeps(lines) ==
    IF lines = <<>> THEN <<>>
    ELSE (IF lines[1].addr /\ lines[1].arrow /\ lines[1].dep # <<>>
          THEN <<PathFrom(lines[1].dep)>> ELSE <<>>)
         \o TraceDeps(Tail(lines))

find_elf_deps(trace) ==
    IF ~trace.spawn THEN Err("spawn")
    ELSE IF \E i \in 1..Len(trace.lines) : ~trace.lines[i].ok THEN Err("read")
    ELSE Ok(TraceDeps(trace.lines))

IsLibcName(name) ==
    \/ starts_with(name, <<"l", "i", "b", "c", ".", "s", "o">>)
    \/ starts_with(name, <<"l", "i", "b", "c", "-">>)

\* The C library extension step of parse_elf.
glibc_step(elf, name) ==
    IF name.some /\ IsUtf8(name.val) /\ IsLibcName(name.val)
    THEN LET v == glibc_version(elf.probe) IN
         IF v.tag = "Ok" THEN find_glibc_deps(elf, v.val) ELSE Ok(<<>>)
    ELSE Ok(<<>>)

parse_elf(elf, name) ==
    IF ~elf.stream THEN Err("open_stream")
    ELSE LET l == find_ldso(elf) IN
         IF l.tag # "Ok" THEN l
         ELSE LET ldso == IF l.val.some THEN l.val.val ELSE DEFAULT_LDSO
                  extra == glibc_step(elf, name)
              IN  IF extra.tag # "Ok" THEN extra
                  ELSE LET d == find_elf_deps(elf.trace) IN
                       IF d.tag # "Ok" THEN d
                       ELSE Ok(extra.val \o d.val \o <<ldso>>)

----------------------------------------------------------------------------
(* Entity resolver *)

\* The size of the sniffed buffer.
SniffLen == 512

\* file.read(&mut buffer): the first bytes of the file.
sniff(content) ==
    SubSeq(content, 1, IF Len(content) < SniffLen THEN Len(content) ELSE SniffLen)

process_file(name, file) ==
    IF ~file.readable THEN Err("open")
    ELSE LET shebang == find_shebang(sniff(file.content)) IN
         IF shebang.some
         THEN LET split == shlex_split(shebang.val)
                  a == IF split.some THEN split.val ELSE <<>>
              IN  IF a = <<>> THEN Err("invalid shebang")
                  ELSE LET cmd == a[1]
                           rest == Tail(a)
                           files == <<PathFrom(cmd)>>
                       IN  IF cmd = UsrBinEnv /\ rest # <<>>
                           THEN LET c == find_env_cmd(rest) IN
                                IF c.some
                                THEN (LET w == which(file, c.val) IN
                                      IF w.tag # "Ok" THEN w
                                      ELSE Ok(Append(files, w.val)))
                                ELSE Ok(files)
                           ELSE Ok(files)
         ELSE IF is_elf(sniff(file.content)) THEN parse_elf(file.elf, name)
         ELSE Ok(<<>>)

\* The answer of path.is_dir(), which follows symbolic links.
is_dir(ent) == ent.kind = "dir" \/ (ent.kind = "symlink" /\ ent.target_is_dir)

process(path, ent) ==
    IF ent.kind = "missing" THEN Err("No such file or directory")
    ELSE IF ent.kind = "symlink"
    THEN (IF ent.target.some THEN Ok(<<ent.target.val>>) ELSE Err("read_link"))
    ELSE IF ent.kind = "dir"
    THEN (IF ent.listable
          THEN Ok([i \in 1..Len(ent.entries) |-> Join(path, ent.entries[i])])
          ELSE Err("read_dir"))
    ELSE IF ent.kind = "file" THEN process_file(file_name(path), ent.file)
    ELSE Err("path is unsupported")

----------------------------------------------------------------------------
(* The environment of the driver: arguments, working directory, file system *)

MaxArgs == 2        \* at most this many command line arguments
MaxDepth == 1       \* symbolic links live at most this deep, listed directories above it
MaxEntries == 2     \* a directory lists at most this many entries

\* Entry names: "a", "bb" and two names that are no valid UTF-8.
Names == { <<"a">>, <<"b", "b">>, <<"xFE">>, <<"xFF">> }

\* Command line arguments: "a", "./bb", "/", "/a/../bb".
Args == { <<"a">>, <<".", "/", "b", "b">>, <<"/">>,
          <<"/", "a", "/", ".", ".", "/", "b", "b">> }

Cwds == { <<>>, << <<"a">> >> }

ArgLists == UNION { [1..n -> Args] : n \in 0..MaxArgs }

\* Link targets: "a", "../bb", "/bb".
LinkTargets == { PathFrom(<<"a">>), PathFrom(<<".", ".", "/", "b", "b">>),
                 PathFrom(<<"/", "b", "b">>) }

\* The answers of a dynamic linker trace: one dependency "/a".
TraceA == [spawn |-> TRUE,
           lines |-> << [ok |-> TRUE, addr |-> TRUE, arrow |-> TRUE, dep |-> <<"/", "a">>] >>]

\* A well-formed executable that requests the dynamic linker "/bb".
ElfPlain ==
    [stream |-> TRUE, interp_hdr |-> "some", interp_data |-> "ok", compressed |-> FALSE,
     interp |-> <<"/", "b", "b", "NUL">>,
     probe |-> [spawn |-> FALSE, success |-> FALSE, line |-> None],
     loadable |-> {}, mapped |-> {}, nss_is_file |-> FALSE,
     nss |-> [open |-> FALSE, lines |-> <<>>],
     trace |-> TraceA]

ElfMagic == <<"x7F", "E", "L", "F">>

\* The first bytes of an ELF file: the magic number and the rest of the header.
ElfImage == ElfMagic \o [i \in 1..60 |-> "NUL"]

FileOf(content, elf) ==
    [readable |-> TRUE, content |-> content, which |-> None, elf |-> elf]

\* The regular files of the driver's file system.
DriverFiles ==
    { [FileOf(<<>>, ElfPlain) EXCEPT !.readable = FALSE],            \* unreadable
      FileOf(<<"a">>, ElfPlain),                                      \* data
      FileOf(<<"HASH", "BANG", "/", "b", "b", "LF">>, ElfPlain),      \* "#!/bb\n"
      FileOf(<<"HASH", "BANG", "/", "b", "b">>, ElfPlain),            \* "#!/bb"
      FileOf(ElfImage, ElfPlain),
      FileOf(ElfImage, [ElfPlain EXCEPT !.compressed = TRUE]) }

NoFile == FileOf(<<>>, ElfPlain)

Entity(kind) ==
    [kind |-> kind, target |-> None, target_is_dir |-> FALSE, listable |-> FALSE,
     entries |-> <<>>, file |-> NoFile]

\* Directory listings: at most MaxEntries distinct names, in read_dir's order.
Listings ==
    { l \in UNION { [1..n -> Names] : n \in 0..MaxEntries } :
        \A i, j \in 1..Len(l) : i # j => l[i] # l[j] }

\* What the file system may hold at a path, drawn when the path is resolved (a
\* path is resolved at most once).  The root is a directory; directories that
\* list entries live above depth MaxDepth, symbolic links down to it.
Entities(path) ==
    LET dirs == { [Entity("dir") EXCEPT !.listable = TRUE, !.entries = l] :
                    l \in IF Len(path) < MaxDepth THEN Listings ELSE {<<>>} }
        links == IF Len(path) <= MaxDepth
                 THEN { [Entity("symlink") EXCEPT !.target = Some(t), !.target_is_dir = d] :
                          t \in LinkTargets, d \in BOOLEAN }
                 ELSE {}
        files == { [Entity("file") EXCEPT !.file = f] : f \in DriverFiles }
    IN  IF path = <<>> THEN dirs
        ELSE dirs \cup links \cup files
             \cup { Entity("missing"), Entity("other"), Entity("dir") }

----------------------------------------------------------------------------
(* The closure driver: main *)

Bump(f, p) == IF p \in DOMAIN f THEN [f EXCEPT ![p] = @ + 1] ELSE (p :> 1) @@ f

\* HashMap::insert
Insert(map, k, v) == IF k \in DOMAIN map THEN [map EXCEPT ![k] = v] ELSE (k :> v) @@ map

RECURSIVE SeqToSet(_)
SeqToSet(seq) == IF seq = <<>> THEN {} ELSE {seq[1]} \cup SeqToSet(Tail(seq))

\* A lookup that never finds the key.
contains_key_never(map, path) == FALSE

\* processed_paths.contains_key(&path)
contains_key(map, path) == path \in DOMAIN map

\* The reference directory of the results of a resolved path.
Reference(path, ent) == IF is_dir(ent) THEN Some(path) ELSE parent(path)

\* The results of process, each normalised against the reference.
Normalised(results, reference) ==
    [i \in 1..Len(results) |-> resolve_path(results[i], reference)]

\* The normalised references of a path that process resolved to Ok(results).
Found(path, ent) == Normalised(process(path, ent).val, Reference(path, ent).val)

\* A filter_map that stops after the first result.
Unrecorded_first(paths, map) ==
    IF paths = <<>> \/ contains_key(map, paths[1]) THEN <<>> ELSE <<paths[1]>>

\* The filter_map of the loop: the normalised results not yet recorded.
RECURSIVE Unrecorded(_, _)
Unrecorded(paths, map) ==
    IF paths = <<>> THEN <<>>
    ELSE (IF ~contains_key(map, paths[1]) THEN <<paths[1]>> ELSE <<>>)
         \o Unrecorded(Tail(paths), map)

\* The seeds: every argument normalised against the working directory.
Seeds(a, dir) == [i \in 1..Len(a) |-> resolve_path(PathFrom(a[i]), dir)]

\* An ELF file whose .interp section find_ldso reads and finds compressed.
CompressedInterp(ent) ==
    /\ ent.kind = "file"
    /\ ent.file.readable
    /\ ~find_shebang(sniff(ent.file.content)).some
    /\ is_elf(sniff(ent.file.content))
    /\ ent.file.elf.stream
    /\ ent.file.elf.interp_hdr = "some"
    /\ ent.file.elf.interp_data = "ok"
    /\ ent.file.elf.compressed

Noted(set, path, ent) == IF CompressedInterp(ent) THEN set \cup {path} ELSE set

DriverInit ==
    /\ pc = "start"
    /\ cwd \in Cwds
    /\ args \in ArgLists
    /\ unprocessed_paths = <<>>
    /\ processed_paths = <<>>
    /\ calls = <<>>
    /\ discovered = {}
    /\ warnings = <<>>
    /\ failed = {}
    /\ compressed = {}
    /\ printed = <<>>
    /\ exit_code = -1

\* The driver is not run.
DriverIdle ==
    /\ pc = "idle"
    /\ cwd = <<>>
    /\ args = <<>>
    /\ unprocessed_paths = <<>>
    /\ processed_paths = <<>>
    /\ calls = <<>>
    /\ discovered = {}
    /\ warnings = <<>>
    /\ failed = {}
    /\ compressed = {}
    /\ printed = <<>>
    /\ exit_code = -1

\* No arguments: the message on stderr and exit(1).
NoArgs ==
    /\ pc = "start"
    /\ args = <<>>
    /\ pc' = "exit1"
    /\ exit_code' = 1
    /\ UNCHANGED <<cwd, args, unprocessed_paths, processed_paths, calls, discovered,
                   warnings, failed, compressed, printed>>

\* The worklist is built from the arguments.
Start ==
    /\ pc = "start"
    /\ args # <<>>
    /\ unprocessed_paths' = Seeds(args, cwd)
    /\ discovered' = SeqToSet(Seeds(args, cwd))
    /\ pc' = "loop"
    /\ UNCHANGED <<cwd, args, processed_paths, calls, warnings, failed, compressed,
                   printed, exit_code>>

\* One iteration on a path that is already recorded.
Skip ==
    /\ pc = "loop"
    /\ unprocessed_paths # <<>>
    /\ contains_key(processed_paths, Head(unprocessed_paths))
    /\ unprocessed_paths' = Tail(unprocessed_paths)
    /\ UNCHANGED <<pc, cwd, args, processed_paths, calls, discovered, warnings, failed,
                   compressed, printed, exit_code>>

\* One iteration in which process returns Ok.
ResolveOk ==
    /\ pc = "loop"
    /\ unprocessed_paths # <<>>
    /\ LET path == Head(unprocessed_paths) IN
       /\ ~contains_key(processed_paths, path)
       /\ \E ent \in Entities(path) :
            /\ process(path, ent).tag = "Ok"
            /\ Reference(path, ent).some
            /\ unprocessed_paths' =
                 Tail(unprocessed_paths) \o Unrecorded(Found(path, ent), processed_paths)
            /\ discovered' = discovered \cup SeqToSet(Found(path, ent))
            /\ processed_paths' = Insert(processed_paths, path, TRUE)
            /\ calls' = Bump(calls, path)
            /\ compressed' = Noted(compressed, path, ent)
    /\ UNCHANGED <<pc, cwd, args, warnings, failed, printed, exit_code>>

\* One iteration in which process returns Err: a warning, and the path is recorded.
ResolveErr ==
    /\ pc = "loop"
    /\ unprocessed_paths # <<>>
    /\ LET path == Head(unprocessed_paths) IN
       /\ ~contains_key(processed_paths, path)
       /\ \E ent \in Entities(path) :
            /\ process(path, ent).tag = "Err"
            /\ unprocessed_paths' = Tail(unprocessed_paths)
            /\ warnings' = Bump(warnings, path)
            /\ processed_paths' = Insert(processed_paths, path, FALSE)
            /\ calls' = Bump(calls, path)
            /\ failed' = failed \cup {path}
            /\ compressed' = Noted(compressed, path, ent)
    /\ UNCHANGED <<pc, cwd, args, discovered, printed, exit_code>>

\* One iteration that panics: in process, or for want of a parent directory.
\* The panic unwinds through main: nothing is recorded or printed, exit status 101.
ResolvePanic ==
    /\ pc = "loop"
    /\ unprocessed_paths # <<>>
    /\ LET path == Head(unprocessed_paths) IN
       /\ ~contains_key(processed_paths, path)
       /\ \E ent \in Entities(path) :
            /\ \/ process(path, ent).tag = "Panic"
               \/ process(path, ent).tag = "Ok" /\ ~Reference(path, ent).some
            /\ unprocessed_paths' = Tail(unprocessed_paths)
            /\ calls' = Bump(calls, path)
            /\ failed' = IF process(path, ent).tag = "Panic" THEN failed \cup {path}
                         ELSE failed
            /\ compressed' = Noted(compressed, path, ent)
    /\ pc' = "aborted"
    /\ exit_code' = 101
    /\ UNCHANGED <<cwd, args, processed_paths, discovered, warnings, printed>>

\* The worklist is empty: the successes are sorted and printed, main returns.
Finish ==
    /\ pc = "loop"
    /\ unprocessed_paths = <<>>
    /\ printed' = SortedOutput(processed_paths)
    /\ pc' = "done"
    /\ exit_code' = 0
    /\ UNCHANGED <<cwd, args, unprocessed_paths, processed_paths, calls, discovered,
                   warnings, failed, compressed>>

Pending == [done |-> FALSE, out |-> None]
Done(v) == [done |-> TRUE, out |-> v]

FileIdle == f_name = None /\ f_file = NoFile /\ f_res = Pending
EnvIdle == e_args = <<>> /\ e_res = Pending
RefIdle == r_path = <<>> /\ r_ent = Entity("missing") /\ r_res = Pending

Init == DriverInit /\ FileIdle /\ EnvIdle /\ RefIdle

Next ==
    \/ (NoArgs /\ UNCHANGED <<fileVars, envVars, refVars>>)
    \/ (Start /\ UNCHANGED <<fileVars, envVars, refVars>>)
    \/ (Skip /\ UNCHANGED <<fileVars, envVars, refVars>>)
    \/ (ResolveOk /\ UNCHANGED <<fileVars, envVars, refVars>>)
    \/ (ResolveErr /\ UNCHANGED <<fileVars, envVars, refVars>>)
    \/ (ResolvePanic /\ UNCHANGED <<fileVars, envVars, refVars>>)
    \/ (Finish /\ UNCHANGED <<fileVars, envVars, refVars>>)

Spec == Init /\ [][Next]_vars

----------------------------------------------------------------------------
(* find_env_cmd on its own *)

MaxTokens == 3      \* at most this many tokens after the env command

\* "", "a", "bb", "a=1", "-", "-x", "--unset=a" and every flag env knows.
Tokens ==
    { <<>>, <<"a">>, <<"b", "b">>, <<"a", "=", "1">>, <<"-">>, <<"-", "x">>,
      <<"-", "-", "u", "n", "s", "e", "t", "=", "a">> }
    \cup BoolFlags \cup ValueFlags

TokenLists == UNION { [1..n -> Tokens] : n \in 0..MaxTokens }

EnvInit == e_args \in TokenLists /\ e_res = Pending

\* find_env_cmd returns a command.
EnvFound ==
    /\ ~e_res.done
    /\ find_env_cmd(e_args).some
    /\ e_res' = Done(find_env_cmd(e_args))
    /\ UNCHANGED e_args

\* find_env_cmd returns None.
EnvNone ==
    /\ ~e_res.done
    /\ ~find_env_cmd(e_args).some
    /\ e_res' = Done(find_env_cmd(e_args))
    /\ UNCHANGED e_args

InitEnv == DriverIdle /\ FileIdle /\ EnvInit /\ RefIdle

NextEnv ==
    \/ (EnvFound /\ UNCHANGED <<driverVars, fileVars, refVars>>)
    \/ (EnvNone /\ UNCHANGED <<driverVars, fileVars, refVars>>)

SpecEnv == InitEnv /\ [][NextEnv]_vars

----------------------------------------------------------------------------
(* The references of one entity on their own *)

\* The paths of the file system down to depth two.
RefPaths == {<<>>} \cup { <<n>> : n \in Names } \cup { <<n, m>> : n \in Names, m \in Names }

RefInit == r_path \in RefPaths /\ r_ent \in Entities(r_path) /\ r_res = Pending

\* process returns Ok: its results are normalised against the reference.
RefOk ==
    /\ ~r_res.done
    /\ process(r_path, r_ent).tag = "Ok"
    /\ Reference(r_path, r_ent).some
    /\ r_res' = Done(Some(Found(r_path, r_ent)))
    /\ UNCHANGED <<r_path, r_ent>>

\* process does not return Ok: there is nothing to normalise.
RefNone ==
    /\ ~r_res.done
    /\ process(r_path, r_ent).tag # "Ok"
    /\ r_res' = Done(None)
    /\ UNCHANGED <<r_path, r_ent>>

InitRef == DriverIdle /\ FileIdle /\ EnvIdle /\ RefInit

NextRef ==
    \/ (RefOk /\ UNCHANGED <<driverVars, fileVars, envVars>>)
    \/ (RefNone /\ UNCHANGED <<driverVars, fileVars, envVars>>)

SpecRef == InitRef /\ [][NextRef]_vars

----------------------------------------------------------------------------
(* process_file on its own *)

\* "libc.so.6", "libc-2.31.so", "libfoo.so", "libc"
FileNames ==
    { Some(<<"l", "i", "b", "c", ".", "s", "o", ".", "6">>),
      Some(<<"l", "i", "b", "c", "-", "2", ".", "3", "1", ".", "s", "o">>),
      Some(<<"l", "i", "b", "f", "o", "o", ".", "s", "o">>),
      Some(<<"l", "i", "b", "c">>) }

SheBang == <<"HASH", "BANG">>
EnvSp == UsrBinEnv \o <<"SP">>

\* The first bytes of the files that are no ELF files.
TextContents ==
    { <<>>,
      <<"a">>,
      ElfMagic,
      <<"HASH">>,
      SheBang,                                                  \* "#!"
      SheBang \o <<"LF">>,                                      \* "#!\n"
      SheBang \o <<"SP", "LF">>,                                \* "#! \n"
      SheBang \o <<"/", "b", "b">>,                             \* "#!/bb"
      SheBang \o <<"/", "b", "b", "LF">>,                       \* "#!/bb\n"
      SheBang \o <<"/", "b", "b", "SP", "-", "x", "LF", "a">>,  \* "#!/bb -x\na"
      SheBang \o <<"QUOTE", "b", "b", "LF">>,                   \* "#!\"bb\n"
      SheBang \o <<"/", "xFF", "LF">>,                          \* "#!/\xFF\n"
      SheBang \o UsrBinEnv,                                     \* "#!/usr/bin/env"
      SheBang \o UsrBinEnv \o <<"LF">>,                         \* "#!/usr/bin/env\n"
      SheBang \o EnvSp \o <<"b", "b", "LF">>,                   \* "#!/usr/bin/env bb\n"
      SheBang \o EnvSp \o <<"b", "b">>,                         \* "#!/usr/bin/env bb"
      SheBang \o EnvSp \o <<"-", "i", "LF">>,                   \* "#!/usr/bin/env -i\n"
      SheBang \o EnvSp \o <<"-", "u", "SP", "a", "SP", "b", "b", "LF">>,
      SheBang \o EnvSp \o <<"a", "=", "1", "SP", "b", "b", "LF">> }

\* which::which finds nothing, or "/usr/bin/bb".
WhichAnswers ==
    { None, Some(PathFrom(<<"/", "u", "s", "r", "/", "b", "i", "n", "/", "b", "b">>)) }

\* What the version probe of a C library gives.
Probes ==
    { [spawn |-> FALSE, success |-> FALSE, line |-> None],
      [spawn |-> TRUE, success |-> FALSE, line |-> None],
      [spawn |-> TRUE, success |-> TRUE, line |-> None],
      [spawn |-> TRUE, success |-> TRUE,
       line |-> Some([matches |-> FALSE, version |-> <<>>])],
      [spawn |-> TRUE, success |-> TRUE,
       line |-> Some([matches |-> TRUE, version |-> <<2, 31>>])] }

\* "passwd: files dns [NOTFOUND=return]" as its parts.
NssLine ==
    [ok |-> TRUE,
     parts |-> << <<"p", "a", "s", "s", "w", "d", ":">>, <<"f", "i", "l", "e", "s">>,
                  <<"d", "n", "s", "[", "x", "]">> >>]

\* /etc/nsswitch.conf: no file, unreadable, a line that cannot be read, readable.
NssAnswers ==
    { [is_file |-> FALSE, nss |-> [open |-> FALSE, lines |-> <<>>]],
      [is_file |-> TRUE, nss |-> [open |-> FALSE, lines |-> <<>>]],
      [is_file |-> TRUE, nss |-> [open |-> TRUE, lines |-> <<NssLine, [NssLine EXCEPT !.ok = FALSE]>>]],
      [is_file |-> TRUE, nss |-> [open |-> TRUE, lines |-> <<NssLine>>]] }

\* The libraries the loader can load, and those it then shows as mapped.
LibAnswers ==
    { [loadable |-> {}, mapped |-> {}],
      [loadable |-> { <<"libgcc_s.so.1">>, <<"libidn2.so.0">> },
       mapped |-> { <<"libgcc_s.so.1">> }],
      [loadable |-> { <<"libgcc_s.so.1">>,
                      <<"libnss_", <<"f", "i", "l", "e", "s">>, ".so.", 2>>,
                      <<"libnss_", <<"d", "n", "s">>, "-", 2, ".", 31, ".so">> },
       mapped |-> { <<"libgcc_s.so.1">>,
                    <<"libnss_", <<"f", "i", "l", "e", "s">>, ".so.", 2>>,
                    <<"libnss_", <<"d", "n", "s">>, "-", 2, ".", 31, ".so">> }] }

\* The .interp section: none, unreadable headers, unreadable data, compressed,
\* empty, "/bb".
InterpAnswers ==
    { [hdr |-> "none", data |-> "ok", compressed |-> FALSE, interp |-> <<>>],
      [hdr |-> "err", data |-> "ok", compressed |-> FALSE, interp |-> <<>>],
      [hdr |-> "some", data |-> "err", compressed |-> FALSE, interp |-> <<>>],
      [hdr |-> "some", data |-> "ok", compressed |-> TRUE, interp |-> <<"x">>],
      [hdr |-> "some", data |-> "ok", compressed |-> FALSE, interp |-> <<"NUL">>],
      [hdr |-> "some", data |-> "ok", compressed |-> FALSE,
       interp |-> <<"/", "b", "b", "NUL">>] }

\* The trace of the dynamic linker: not started, a line that cannot be read,
\* "linux-vdso.so.1 (0x..)" and "liba => /a (0x..)".
TraceAnswers ==
    { [spawn |-> FALSE, lines |-> <<>>],
      [spawn |-> TRUE, lines |-> << [ok |-> FALSE, addr |-> FALSE, arrow |-> FALSE, dep |-> <<>>] >>],
      [spawn |-> TRUE,
       lines |-> << [ok |-> TRUE, addr |-> TRUE, arrow |-> FALSE, dep |-> <<>>],
                    [ok |-> TRUE, addr |-> TRUE, arrow |-> TRUE, dep |-> <<"/", "a">>] >>] }

ElfFiles ==
    { [stream |-> st, interp_hdr |-> i.hdr, interp_data |-> i.data,
       compressed |-> i.compressed, interp |-> i.interp, probe |-> pr,
       loadable |-> l.loadable, mapped |-> l.mapped, nss_is_file |-> n.is_file,
       nss |-> n.nss, trace |-> t] :
        st \in BOOLEAN, i \in InterpAnswers, pr \in Probes, l \in LibAnswers,
        n \in NssAnswers, t \in TraceAnswers }

Files ==
    { [readable |-> r, content |-> c, which |-> w, elf |-> ElfPlain] :
        r \in BOOLEAN, c \in TextContents, w \in WhichAnswers }
    \cup { FileOf(ElfImage, e) : e \in ElfFiles }

FileInit == f_name \in FileNames /\ f_file \in Files /\ f_res = Pending

FileOk ==
    /\ ~f_res.done
    /\ process_file(f_name, f_file).tag = "Ok"
    /\ f_res' = Done(process_file(f_name, f_file))
    /\ UNCHANGED <<f_name, f_file>>

FileErr ==
    /\ ~f_res.done
    /\ process_file(f_name, f_file).tag = "Err"
    /\ f_res' = Done(process_file(f_name, f_file))
    /\ UNCHANGED <<f_name, f_file>>

FilePanic ==
    /\ ~f_res.done
    /\ process_file(f_name, f_file).tag = "Panic"
    /\ f_res' = Done(process_file(f_name, f_file))
    /\ UNCHANGED <<f_name, f_file>>

InitFile == DriverIdle /\ FileInit /\ EnvIdle /\ RefIdle

NextFile ==
    \/ (FileOk /\ UNCHANGED <<driverVars, envVars, refVars>>)
    \/ (FileErr /\ UNCHANGED <<driverVars, envVars, refVars>>)
    \/ (FilePanic /\ UNCHANGED <<driverVars, envVars, refVars>>)

SpecFile == InitFile /\ [][NextFile]_vars

----------------------------------------------------------------------------
(* Properties *)

RECURSIVE Total(_)
Total(f) ==
    IF DOMAIN f = {} THEN 0
    ELSE LET k == CHOOSE k \in DOMAIN f : TRUE IN
         f[k] + Total([x \in DOMAIN f \ {k} |-> f[x]])

Count(f, p) == IF p \in DOMAIN f THEN f[p] ELSE 0
Successes == { p \in DOMAIN processed_paths : processed_paths[p] }
Failures == { p \in DOMAIN processed_paths : ~processed_paths[p] }
Ended == pc \in {"done", "aborted"}

\* C1: when the loop of main has finished, every normalised seed is recorded,
\* and every normalised reference that process returned for a path recorded
\* as a success is recorded too, as a success or as a failure.
C1_ClosedUnderDiscovery ==
    pc = "done" =>
        /\ \A i \in 1..Len(args) :
               resolve_path(PathFrom(args[i]), cwd) \in DOMAIN processed_paths
        /\ discovered \subseteq DOMAIN processed_paths

\* A finished run whose record holds successes, a failure, and at least two
\* paths that were not seeds but came out of process.
C1_Witness ==
    /\ pc = "done"
    /\ Cardinality(discovered \ SeqToSet(Seeds(args, cwd))) >= 2
    /\ Cardinality(Successes) >= 2
    /\ Failures # {}

\* C2: process is invoked at most once per normalised path, and the flag
\* recorded for a path is never written again: a recorded path stays recorded
\* with the same flag, also when it sits in the worklist once more.
C2_ResolvedOnce ==
    /\ [](\A p \in DOMAIN calls : calls[p] <= 1)
    /\ [][\A p \in DOMAIN processed_paths :
             /\ p \in DOMAIN processed_paths'
             /\ processed_paths'[p] = processed_paths[p]
             /\ Count(calls', p) = Count(calls, p)]_vars

\* A path recorded as failed, resolved once, sits in the worklist again.
C2_Witness ==
    \E i \in 1..Len(unprocessed_paths) :
        /\ unprocessed_paths[i] \in Failures
        /\ calls[unprocessed_paths[i]] = 1

\* C3: what is printed is exactly the paths recorded as successes, each once,
\* in strictly ascending order of (length, then bytes).
C3_PrintedResult ==
    pc = "done" =>
        /\ Len(printed) = Cardinality(Successes)
        /\ { printed[i] : i \in 1..Len(printed) } = { PathBytes(p) : p \in Successes }
        /\ \A i \in 1..(Len(printed) - 1) : SortLess(printed[i], printed[i + 1])

\* C4: the loop ends with an empty worklist, and process is invoked at most as
\* often as there are distinct discovered paths.
C4_LoopTerminates ==
    /\ Ended => unprocessed_paths = <<>>
    /\ Total(calls) <= Cardinality(discovered)

C6_FailureIsolation ==
    /\ \A p \in failed :
           /\ Count(warnings, p) = 1
           /\ p \in Failures
    /\ Ended =>
           /\ unprocessed_paths = <<>>
           /\ Total(warnings) = Cardinality(Failures)
           /\ exit_code = 0

\* C7: for an ELF file with the name of a C library, whose dynamic linker is
\* found and whose trace is read, process_file returns Ok with the trace's
\* dependencies and the linker, whatever happens in the NSS extension step.
C7_NssNeverFails ==
    ( /\ f_res.done
      /\ f_file.readable
      /\ ~find_shebang(sniff(f_file.content)).some
      /\ is_elf(sniff(f_file.content))
      /\ IsLibcName(f_name.val)
      /\ f_file.elf.stream
      /\ find_ldso(f_file.elf).tag = "Ok"
      /\ find_elf_deps(f_file.elf.trace).tag = "Ok" )
    => /\ f_res.out.tag = "Ok"
       /\ SeqToSet(find_elf_deps(f_file.elf.trace).val) \subseteq SeqToSet(f_res.out.val)
       /\ f_res.out.val # <<>>
       /\ f_res.out.val[Len(f_res.out.val)] =
              (IF find_ldso(f_file.elf).val.some THEN find_ldso(f_file.elf).val.val
               ELSE DEFAULT_LDSO)

\* C8: a path that is an ELF file with a compressed .interp section gets one
\* warning and is recorded as failed, and the run is not aborted.
C8_CompressedInterpIsolated ==
    \A p \in compressed :
        /\ pc # "aborted"
        /\ Count(warnings, p) = 1
        /\ p \in Failures

\* The header of a buffer that begins with "#!": up to the first newline, or
\* to the end of the buffer.
C9_Header(buffer) ==
    LET end == position(buffer, "LF") IN
    SubSeq(buffer, 3, IF end = 0 THEN Len(buffer) ELSE end - 1)

\* C9: a readable regular file whose sniffed bytes begin with "#!" fails to
\* resolve, or resolves to a list that holds the first token of its header;
\* it never resolves to the empty list.
C9_ShebangNeverLeaf ==
    ( /\ f_res.done
      /\ f_file.readable
      /\ starts_with(sniff(f_file.content), <<"HASH", "BANG">>) )
    => \/ f_res.out.tag = "Err"
       \/ /\ f_res.out.tag = "Ok"
          /\ f_res.out.val # <<>>
          /\ LET t == shlex_split(C9_Header(sniff(f_file.content))) IN
             /\ t.some
             /\ t.val # <<>>
             /\ PathFrom(t.val[1]) \in SeqToSet(f_res.out.val)

\* The flags that take one argument.
C10_ValueFlags ==
    { <<"-", "u">>, <<"-", "-", "u", "n", "s", "e", "t">>,
      <<"-", "C">>, <<"-", "-", "c", "h", "d", "i", "r">>,
      <<"-", "S">>, <<"-", "-", "s", "p", "l", "i", "t", "-", "s", "t", "r", "i", "n", "g">> }

\* Token i is the argument of the value flag before it.
RECURSIVE C10_Consumed(_, _)
C10_Consumed(a, i) ==
    /\ i > 1
    /\ a[i - 1] \in C10_ValueFlags
    /\ ~C10_Consumed(a, i - 1)

\* The positions of the tokens that can be the command.
C10_Commands(a) ==
    { i \in 1..Len(a) :
        /\ ~starts_with(a[i], <<"-">>)
        /\ ~contains(a[i], "=")
        /\ ~C10_Consumed(a, i) }

\* C10: find_env_cmd returns the first token that does not start with "-",
\* holds no "=" and is not the argument of a value flag before it, and None
\* when there is no such token.
C10_EnvCommand ==
    e_res.done =>
        e_res.out =
            (IF C10_Commands(e_args) = {} THEN None
             ELSE Some(e_args[CHOOSE i \in C10_Commands(e_args) :
                                 \A j \in C10_Commands(e_args) : i <= j]))

\* A value flag took a token that looks like a command, and a later token is
\* the command.
C10_Witness ==
    /\ e_res.done
    /\ e_res.out.some
    /\ \E i \in 1..Len(e_args) :
         /\ C10_Consumed(e_args, i)
         /\ ~starts_with(e_args[i], <<"-">>)
         /\ ~contains(e_args[i], "=")
         /\ e_res.out.val # e_args[i]

====
